---- MODULE Spec2Model ----
(***************************************************************************)
(* A model of recsim/colab/RecSim_Overview.ipynb: the create_agent         *)
(* adapter, the notebook's cells executed top to bottom by one kernel, and *)
(* the simulation event loop of "RecSim at a Glance" that the runners'     *)
(* run_experiment() executes.                                               *)
(***************************************************************************)
EXTENDS Integers, Sequences, FiniteSets, TLC

VARIABLES
    pc,                   \* the statement of the notebook the kernel executes next
    imported,             \* modules imported so far
    create_agent_fn,      \* the global name create_agent
    seed,                 \* the global seed
    env_config,           \* the global env_config
    tmp_base_dir,         \* the global tmp_base_dir
    runner,               \* the global runner
    env_arg,              \* the env= argument evaluated for the runner call under way
    heap,                 \* objects by reference: environments, sessions, writers
    envCalls,             \* arguments received by interest_evolution.create_environment
    runnerCalls,          \* arguments received by TrainRunner and EvalRunner
    agentCalls,           \* one entry per executed call of create_agent
    events,               \* notebook-level calls and returns, in order
    io,                   \* directories written and read
    error,                \* the exception that reached the notebook's top level
    raised,               \* the exception as the external call raised it
    number_of_episodes,   \* event loop: number_of_episodes
    episode,              \* event loop: episode
    user,                 \* event loop: user
    recommended_slate,    \* event loop: recommended_slate
    user_response,        \* event loop: user_response
    available_documents,  \* event loop: available_documents
    lpc,                  \* event loop: the statement executed next
    step,                 \* event loop: iterations of the while loop in this session
    started,              \* event loop: episodes started, in order
    session_over          \* event loop: the while condition was last found false

nbvars == <<pc, imported, create_agent_fn, seed, env_config, tmp_base_dir, runner,
            env_arg>>
logvars == <<envCalls, runnerCalls, agentCalls, events, io, error, raised>>
loopvars == <<number_of_episodes, episode, user, recommended_slate, user_response,
              available_documents, lpc, step, started, session_over>>
vars == <<nbvars, heap, logvars, loopvars>>

----------------------------------------------------------------------------
(* Bounds of the model. *)

\* the while loop of one session runs at most MaxSteps times
MaxSteps == 2
\* a training run executes between 1 and MaxTrainEpisodes episodes
MaxTrainEpisodes == 2
\* calls of create_agent made by the harness of SpecAgent
MaxCalls == 3

(* Constants of the notebook. *)
SeedValue == 0
NumCandidates == 10
SlateSize == 2
MaxTrainingSteps == 50
NumIterations == 10
MaxEvalEpisodes == 5

----------------------------------------------------------------------------
(* Values. *)

Unset == [kind |-> "unset"]         \* a name not bound yet
None == [kind |-> "None"]           \* Python's None
Omitted == [kind |-> "omitted"]     \* an optional argument the caller left out
Null == [kind |-> "null"]           \* the pseudo-code's null
Ref(name) == [kind |-> "ref", name |-> name]
PyInt(n) == [kind |-> "int", value |-> n]     \* a Python int bound to a name
PyStr(t) == [kind |-> "str", value |-> t]     \* a Python str bound to a name

Errors == {"ValueError", "RuntimeError"}
Ok == [ok |-> TRUE]
Raise(e) == [ok |-> FALSE, error |-> e]
\* what an external call may do: return, or raise one of Errors
Outcomes == {Ok} \cup {Raise(e) : e \in Errors}

Users == {"u1", "u2"}
Responses == {"click", "skip"}
DocSamples == {"docsA", "docsB"}

----------------------------------------------------------------------------
(* The heap. *)

EmptyHeap == [r \in {} |-> Unset]
NewObj(h, r, o) == [x \in (DOMAIN h) \cup {r} |-> IF x = r THEN o ELSE h[x]]

EnvNames == <<"env1", "env2", "env3">>
SessionOf(k) == Ref(IF k = "train" THEN "sess_train" ELSE "sess_eval")
WriterOf(k) == Ref(IF k = "train" THEN "writer_train" ELSE "writer_eval")
Session == [kind |-> "Session"]
SummaryWriter == [kind |-> "SummaryWriter"]

\* interest_evolution.create_environment(config): a new environment object that
\* exposes observation_space and action_space, built from the mapping it is given
create_environment(config, ref) ==
    [kind |-> "Environment",
     config |-> config,
     observation_space |-> [space |-> "observation", of |-> ref,
                            num_candidates |-> config.num_candidates],
     action_space |-> [space |-> "action", of |-> ref,
                       num_candidates |-> config.num_candidates,
                       slate_size |-> config.slate_size],
     state |-> "fresh"]

----------------------------------------------------------------------------
(* create_agent. *)

\* full_slate_q_agent.FullSlateQAgent(sess, **kwargs): the agent, or the error raised
FullSlateQAgent(call, o) ==
    IF o.ok
    THEN [ok |-> TRUE,
          value |-> [kind |-> "FullSlateQAgent", args |-> call.args,
                     kwargs |-> call.kwargs]]
    ELSE o

\* create_agent as it would be with summary_writer left out of kwargs' values
create_agentDropsWriter(sess, environment, eval_mode, sw, world, o) ==
    LET kwargs == [observation_space |-> world.heap[environment].observation_space,
                   action_space |-> world.heap[environment].action_space,
                   summary_writer |-> None,
                   eval_mode |-> eval_mode]
        call == [callee |-> "FullSlateQAgent", args |-> <<sess>>, kwargs |-> kwargs]
    IN  [calls |-> <<call>>, result |-> FullSlateQAgent(call, o), world |-> world]

\* create_agent as it would be with the constructor call wrapped in try/except
create_agentSwallows(sess, environment, eval_mode, sw, world, o) ==
    LET summary_writer == IF sw = Omitted THEN None ELSE sw
        kwargs == [observation_space |-> world.heap[environment].observation_space,
                   action_space |-> world.heap[environment].action_space,
                   summary_writer |-> summary_writer,
                   eval_mode |-> eval_mode]
        call == [callee |-> "FullSlateQAgent", args |-> <<sess>>, kwargs |-> kwargs]
    IN  [calls |-> <<call>>,
         result |-> IF o.ok THEN FullSlateQAgent(call, o)
                    ELSE [ok |-> TRUE, value |-> None],
         world |-> world]

\* create_agent as it would be with a default summary_writer that keeps the
\* writer of the last call that gave one
create_agentRemembers(sess, environment, eval_mode, sw, world, o) ==
    LET given == {i \in 1..Len(agentCalls) :
                     agentCalls[i].args.summary_writer # Omitted}
        last == CHOOSE i \in given : \A j \in given : j <= i
        summary_writer == IF sw # Omitted THEN sw
                          ELSE IF given = {} THEN None
                          ELSE agentCalls[last].args.summary_writer
        kwargs == [observation_space |-> world.heap[environment].observation_space,
                   action_space |-> world.heap[environment].action_space,
                   summary_writer |-> summary_writer,
                   eval_mode |-> eval_mode]
        call == [callee |-> "FullSlateQAgent", args |-> <<sess>>, kwargs |-> kwargs]
    IN  [calls |-> <<call>>, result |-> FullSlateQAgent(call, o), world |-> world]

\* def create_agent(sess, environment, eval_mode, summary_writer=None): the
\* constructor calls it makes, what it returns or raises, and the world it
\* leaves (the heap and the global env_config). sw is Omitted when the caller
\* gives no summary_writer; o is what the constructor does when called.
create_agent(sess, environment, eval_mode, sw, world, o) ==
    LET summary_writer == IF sw = Omitted THEN None ELSE sw
        kwargs == [observation_space |-> world.heap[environment].observation_space,
                   action_space |-> world.heap[environment].action_space,
                   summary_writer |-> summary_writer,
                   eval_mode |-> eval_mode]
        call == [callee |-> "FullSlateQAgent", args |-> <<sess>>, kwargs |-> kwargs]
    IN  [calls |-> <<call>>, result |-> FullSlateQAgent(call, o), world |-> world]

\* the entry of agentCalls for one executed call of create_agent
AgentCallEntry(sess, environment, eval_mode, sw, world, o) ==
    LET r == create_agent(sess, environment, eval_mode, sw, world, o)
    IN  [args |-> [sess |-> sess, environment |-> environment,
                   eval_mode |-> eval_mode, summary_writer |-> sw],
         constructor |-> o,
         calls |-> r.calls,
         result |-> r.result,
         before |-> world,
         after |-> r.world]

World == [heap |-> heap, env_config |-> env_config]

----------------------------------------------------------------------------
(* The notebook's cells. The kernel executes one statement at a time, top to *)
(* bottom; an exception that no statement catches ends the run.              *)

Ev(phase, op, ev) == [phase |-> phase, op |-> op, ev |-> ev]

\* an external call at site raised raisedErr; seenErr is what reaches the top
\* level of the notebook, where no cell catches anything
Fail(site, raisedErr, seenErr) ==
    /\ pc' = "failed"
    /\ error' = [site |-> site, error |-> seenErr]
    /\ raised' = [site |-> site, error |-> raisedErr]

\* "Install": !pip install ...; %load_ext tensorboard
InstallCell ==
    /\ pc = "install"
    /\ \E o \in Outcomes :
         IF o.ok
         THEN /\ pc' = "import_generics"
              /\ imported' = imported \cup {"tensorboard"}
              /\ UNCHANGED <<error, raised>>
         ELSE /\ Fail("load_ext", o.error, o.error)
              /\ UNCHANGED imported
    /\ UNCHANGED <<create_agent_fn, seed, env_config, tmp_base_dir, runner, env_arg, heap,
                   envCalls, runnerCalls, agentCalls, events, io, loopvars>>

\* "Importing generics": import numpy as np; import tensorflow as tf
ImportGenericsCell ==
    /\ pc = "import_generics"
    /\ \E o \in Outcomes :
         IF o.ok
         THEN /\ pc' = "import_recsim"
              /\ imported' = imported \cup {"numpy", "tensorflow"}
              /\ UNCHANGED <<error, raised>>
         ELSE /\ Fail("import", o.error, o.error)
              /\ UNCHANGED imported
    /\ UNCHANGED <<create_agent_fn, seed, env_config, tmp_base_dir, runner, env_arg, heap,
                   envCalls, runnerCalls, agentCalls, events, io, loopvars>>

\* "Importing RecSim components"
ImportRecSimCell ==
    /\ pc = "import_recsim"
    /\ \E o \in Outcomes :
         IF o.ok
         THEN /\ pc' = "def_create_agent"
              /\ imported' = imported \cup {"interest_evolution", "full_slate_q_agent",
                                            "runner_lib"}
              /\ UNCHANGED <<error, raised>>
         ELSE /\ Fail("import", o.error, o.error)
              /\ UNCHANGED imported
    /\ UNCHANGED <<create_agent_fn, seed, env_config, tmp_base_dir, runner, env_arg, heap,
                   envCalls, runnerCalls, agentCalls, events, io, loopvars>>

\* def create_agent(...): binds the name
DefCreateAgentCell ==
    /\ pc = "def_create_agent"
    /\ pc' = "config"
    /\ create_agent_fn' = [kind |-> "function", name |-> "create_agent"]
    /\ UNCHANGED <<imported, seed, env_config, tmp_base_dir, runner, env_arg, heap, logvars,
                   loopvars>>

\* the dict literal assigned to env_config, given the value of seed
EnvConfigLiteral(s) ==
    [num_candidates |-> NumCandidates,
     slate_size |-> SlateSize,
     resample_documents |-> TRUE,
     seed |-> s.value]

\* seed = 0; np.random.seed(seed); env_config = {...}
ConfigCell ==
    /\ pc = "config"
    /\ pc' = "train_base_dir"
    /\ seed' = PyInt(SeedValue)
    /\ env_config' = EnvConfigLiteral(seed')
    /\ events' = Append(events, Ev("setup", "env_config", "defined"))
    /\ UNCHANGED <<imported, create_agent_fn, tmp_base_dir, runner, env_arg, heap,
                   envCalls, runnerCalls, agentCalls, io, error, raised, loopvars>>

\* tmp_base_dir = '/tmp/recsim/'
TrainBaseDir ==
    /\ pc = "train_base_dir"
    /\ pc' = "train_env"
    /\ tmp_base_dir' = PyStr("/tmp/recsim/")
    /\ UNCHANGED <<imported, create_agent_fn, seed, env_config, runner, env_arg, heap, logvars,
                   loopvars>>

\* the statement labels of the training cell and of the evaluation cell
L(k, s) ==
    IF k = "train"
    THEN CASE s = "env" -> "train_env" [] s = "ctor" -> "train_ctor"
           [] s = "run" -> "train_run" [] s = "loop" -> "train_loop"
           [] s = "next" -> "eval_env"
    ELSE CASE s = "env" -> "eval_env" [] s = "ctor" -> "eval_ctor"
           [] s = "run" -> "eval_run" [] s = "loop" -> "eval_loop"
           [] s = "next" -> "tensorboard"

\* the argument as it would be if the evaluation cell changed the seed first
EnvFactoryArgReseeded(k) ==
    IF k = "eval" THEN [env_config EXCEPT !.seed = SeedValue + 1] ELSE env_config

\* the argument of interest_evolution.create_environment(env_config)
EnvFactoryArg(k) == env_config

\* env=interest_evolution.create_environment(env_config)
CallCreateEnvironment(k) ==
    /\ pc = L(k, "env")
    /\ LET cfg == EnvFactoryArg(k)
           ref == Ref(EnvNames[Len(envCalls) + 1])
       IN  \E o \in Outcomes :
             /\ envCalls' = Append(envCalls,
                                   [phase |-> k, config |-> cfg,
                                    result |-> IF o.ok THEN ref ELSE o])
             /\ IF o.ok
                THEN /\ heap' = NewObj(heap, ref, create_environment(cfg, ref))
                     /\ env_arg' = ref
                     /\ pc' = L(k, "ctor")
                     /\ events' = events \o <<Ev(k, "create_environment", "call"),
                                              Ev(k, "create_environment", "return")>>
                     /\ UNCHANGED <<error, raised>>
                ELSE /\ Fail("create_environment", o.error, o.error)
                     /\ events' = events \o <<Ev(k, "create_environment", "call"),
                                              Ev(k, "create_environment", "raise")>>
                     /\ UNCHANGED <<heap, env_arg>>
    /\ UNCHANGED <<imported, create_agent_fn, seed, env_config, tmp_base_dir, runner,
                   runnerCalls, agentCalls, io, loopvars>>

\* the keyword arguments of runner_lib.TrainRunner(...)
TrainRunnerArgs ==
    [kind |-> "TrainRunner",
     base_dir |-> tmp_base_dir,
     create_agent_fn |-> create_agent_fn,
     env |-> env_arg,
     episode_log_file |-> "",
     max_training_steps |-> MaxTrainingSteps,
     num_iterations |-> NumIterations]

\* the arguments as they would be with a directory of the evaluation's own
EvalRunnerArgsOwnDir ==
    [kind |-> "EvalRunner",
     base_dir |-> PyStr("/tmp/recsim/eval/"),
     create_agent_fn |-> create_agent_fn,
     env |-> env_arg,
     max_eval_episodes |-> MaxEvalEpisodes,
     test_mode |-> TRUE]

\* the arguments as they would be with the training environment passed again
EvalRunnerArgsSharedEnv ==
    [kind |-> "EvalRunner",
     base_dir |-> tmp_base_dir,
     create_agent_fn |-> create_agent_fn,
     env |-> Ref(EnvNames[1]),
     max_eval_episodes |-> MaxEvalEpisodes,
     test_mode |-> TRUE]

\* the keyword arguments of runner_lib.EvalRunner(...)
EvalRunnerArgs ==
    [kind |-> "EvalRunner",
     base_dir |-> tmp_base_dir,
     create_agent_fn |-> create_agent_fn,
     env |-> env_arg,
     max_eval_episodes |-> MaxEvalEpisodes,
     test_mode |-> TRUE]

RunnerArgs(k) == IF k = "train" THEN TrainRunnerArgs ELSE EvalRunnerArgs

\* runner = runner_lib.TrainRunner(...) / runner_lib.EvalRunner(...): the runner
\* opens its session and summary writer and calls create_agent_fn once, with its
\* own environment and with eval_mode set for evaluation
ConstructRunner(k) ==
    /\ pc = L(k, "ctor")
    /\ LET a == RunnerArgs(k)
           heap1 == NewObj(NewObj(heap, SessionOf(k), Session), WriterOf(k),
                           SummaryWriter)
           world1 == [heap |-> heap1, env_config |-> env_config]
       IN  \E ro \in Outcomes, o \in Outcomes, sw \in {Omitted, WriterOf(k)} :
             /\ runnerCalls' = Append(runnerCalls, a)
             /\ IF ~ro.ok
                THEN /\ Fail(a.kind, ro.error, ro.error)
                     /\ events' = events \o <<Ev(k, "Runner", "call"),
                                              Ev(k, "Runner", "raise")>>
                     /\ UNCHANGED <<heap, env_config, runner, agentCalls>>
                ELSE LET c == AgentCallEntry(SessionOf(k), a.env, k = "eval", sw,
                                             world1, o)
                     IN  /\ agentCalls' = Append(agentCalls, c)
                         /\ heap' = c.after.heap
                         /\ env_config' = c.after.env_config
                         /\ IF c.result.ok
                            THEN /\ runner' = [args |-> a,
                                               agent |-> c.result.value,
                                               sess |-> SessionOf(k),
                                               summary_writer |-> WriterOf(k)]
                                 /\ pc' = L(k, "run")
                                 /\ error' = error
                                 /\ raised' = IF o.ok THEN raised
                                              ELSE [site |-> "FullSlateQAgent",
                                                    error |-> o.error]
                                 /\ events' = events \o
                                      <<Ev(k, "Runner", "call"),
                                        Ev(k, "Runner", "return")>>
                            ELSE /\ Fail("FullSlateQAgent", o.error,
                                         c.result.error)
                                 /\ events' = events \o
                                      <<Ev(k, "Runner", "call"),
                                        Ev(k, "Runner", "raise")>>
                                 /\ UNCHANGED runner
    /\ UNCHANGED <<imported, create_agent_fn, seed, tmp_base_dir, env_arg, envCalls,
                   io, loopvars>>

----------------------------------------------------------------------------
(* runner.run_experiment(): the event loop of "RecSim at a Glance".          *)

InLoop == pc \in {"train_loop", "eval_loop"}

\* the environment of the runner bound to the global runner
RunnerEnv == runner.args.env

\* the sessions a run executes: max_eval_episodes of them for an EvalRunner;
\* for a TrainRunner as many as its step budget lets it run
Episodes(r) ==
    IF r.args.kind = "EvalRunner" THEN {r.args.max_eval_episodes}
    ELSE 1..MaxTrainEpisodes

\* what a run reads and writes: checkpoints and summaries under base_dir
RunIO(k, r) ==
    {[op |-> "write", by |-> k, dir |-> r.args.base_dir]}
    \cup (IF k = "eval" THEN {[op |-> "read", by |-> k, dir |-> r.args.base_dir]}
          ELSE {})

\* runner.run_experiment() is called
RunExperimentCall(k) ==
    /\ pc = L(k, "run")
    /\ pc' = L(k, "loop")
    /\ events' = Append(events, Ev(k, "run_experiment", "call"))
    /\ io' = io \cup RunIO(k, runner)
    /\ \E n \in Episodes(runner) : number_of_episodes' = n
    /\ episode' = 0
    /\ lpc' = "for"
    /\ step' = 0
    /\ started' = <<>>
    /\ session_over' = FALSE
    /\ UNCHANGED <<imported, create_agent_fn, seed, env_config, tmp_base_dir, runner,
                   env_arg, heap, envCalls, runnerCalls, agentCalls, error, raised, user,
                   recommended_slate, user_response, available_documents>>

\* for episode in [1,...,number_of_episodes]:
ForEpisodeOffByOne ==
    /\ InLoop /\ lpc = "for"
    /\ IF episode <= number_of_episodes
       THEN /\ episode' = episode + 1
            /\ started' = Append(started, episode + 1)
            /\ lpc' = "sample_user"
            /\ step' = 0
            /\ session_over' = FALSE
       ELSE /\ lpc' = "end"
            /\ UNCHANGED <<episode, started, step, session_over>>
    /\ UNCHANGED <<nbvars, heap, logvars, number_of_episodes, user, recommended_slate,
                   user_response, available_documents>>

ForEpisode ==
    /\ InLoop /\ lpc = "for"
    /\ IF episode < number_of_episodes
       THEN /\ episode' = episode + 1
            /\ started' = Append(started, episode + 1)
            /\ lpc' = "sample_user"
            /\ step' = 0
            /\ session_over' = FALSE
       ELSE /\ lpc' = "end"
            /\ UNCHANGED <<episode, started, step, session_over>>
    /\ UNCHANGED <<nbvars, heap, logvars, number_of_episodes, user, recommended_slate,
                   user_response, available_documents>>

\* user = sample_user()
SampleUser ==
    /\ InLoop /\ lpc = "sample_user"
    /\ \E u \in Users : user' = [kind |-> "user", id |-> u, episode |-> episode]
    /\ heap' = [heap EXCEPT ![RunnerEnv].state = "used"]
    /\ lpc' = "set_null"
    /\ UNCHANGED <<nbvars, logvars, number_of_episodes, episode, recommended_slate,
                   user_response, available_documents, step, started, session_over>>

\* recommended_slate = null
SetSlateNullSkipped ==
    /\ InLoop /\ lpc = "set_null"
    /\ lpc' = "while"
    /\ UNCHANGED <<nbvars, heap, logvars, number_of_episodes, episode, user,
                   recommended_slate, user_response, available_documents, step,
                   started, session_over>>

SetSlateNull ==
    /\ InLoop /\ lpc = "set_null"
    /\ recommended_slate' = Null
    /\ lpc' = "while"
    /\ UNCHANGED <<nbvars, heap, logvars, number_of_episodes, episode, user,
                   user_response, available_documents, step, started, session_over>>

\* the statements of the while body, in order
WhileBody == <<"user_responds", "sample_documents", "agent_step">>

\* the label that follows statement l of the while body
After(l) ==
    LET i == CHOOSE j \in 1..Len(WhileBody) : WhileBody[j] = l
    IN  IF i < Len(WhileBody) THEN WhileBody[i + 1] ELSE "while"

\* while session_not_over: the session is over when the user says so, and at
\* the latest after MaxSteps iterations
WhileSessionNotOver ==
    /\ InLoop /\ lpc = "while"
    /\ \E session_not_over \in BOOLEAN :
         /\ session_not_over => step < MaxSteps
         /\ IF session_not_over
            THEN /\ step' = step + 1
                 /\ lpc' = WhileBody[1]
                 /\ UNCHANGED session_over
            ELSE /\ session_over' = TRUE
                 /\ lpc' = "for"
                 /\ UNCHANGED step
    /\ UNCHANGED <<nbvars, heap, logvars, number_of_episodes, episode, user,
                   recommended_slate, user_response, available_documents, started>>

\* user_response = user_responds_to_recommendation(recommended_slate)
UserResponds ==
    /\ InLoop /\ lpc = "user_responds"
    /\ \E v \in Responses :
         user_response' = [kind |-> "response", episode |-> episode, step |-> step,
                           to |-> recommended_slate, value |-> v]
    /\ lpc' = After("user_responds")
    /\ UNCHANGED <<nbvars, heap, logvars, number_of_episodes, episode, user,
                   recommended_slate, available_documents, step, started,
                   session_over>>

\* available_documents = sample_documents_from_database()
SampleDocuments ==
    /\ InLoop /\ lpc = "sample_documents"
    /\ \E d \in DocSamples :
         available_documents' = [kind |-> "documents", episode |-> episode,
                                 step |-> step, sample |-> d]
    /\ heap' = [heap EXCEPT ![RunnerEnv].state = "used"]
    /\ lpc' = After("sample_documents")
    /\ UNCHANGED <<nbvars, logvars, number_of_episodes, episode, user,
                   recommended_slate, user_response, step, started, session_over>>

\* the response as the agent sees it: what the user did, not the slate it answers
Observed(r) ==
    IF r.kind = "response"
    THEN [kind |-> "response", episode |-> r.episode, step |-> r.step,
          value |-> r.value]
    ELSE r

\* agent_step(available_documents, user_response): the slate recommended next
agent_step(docs, response, ep, st) ==
    [kind |-> "slate", episode |-> ep, step |-> st,
     from_docs |-> docs, from_response |-> Observed(response)]

\* recommended_slate = agent_step(available_documents, user_response)
AgentStep ==
    /\ InLoop /\ lpc = "agent_step"
    /\ recommended_slate' = agent_step(available_documents, user_response, episode,
                                       step)
    /\ lpc' = After("agent_step")
    /\ UNCHANGED <<nbvars, heap, logvars, number_of_episodes, episode, user,
                   user_response, available_documents, step, started, session_over>>

\* run_experiment() raises: the exception reaches the cell that called it
RunExperimentRaises ==
    /\ InLoop /\ lpc # "end"
    /\ \E e \in Errors : Fail("run_experiment", e, e)
    /\ events' = Append(events,
                        Ev(IF pc = "train_loop" THEN "train" ELSE "eval",
                           "run_experiment", "raise"))
    /\ UNCHANGED <<imported, create_agent_fn, seed, env_config, tmp_base_dir, runner,
                   env_arg, heap, envCalls, runnerCalls, agentCalls, io, loopvars>>

\* run_experiment() returns once the for loop is exhausted; its locals are gone
RunExperimentReturn(k) ==
    /\ pc = L(k, "loop") /\ lpc = "end"
    /\ pc' = L(k, "next")
    /\ events' = Append(events, Ev(k, "run_experiment", "return"))
    /\ lpc' = "idle"
    /\ number_of_episodes' = 0
    /\ episode' = 0
    /\ step' = 0
    /\ started' = <<>>
    /\ session_over' = FALSE
    /\ user' = Unset
    /\ recommended_slate' = Unset
    /\ user_response' = Unset
    /\ available_documents' = Unset
    /\ UNCHANGED <<imported, create_agent_fn, seed, env_config, tmp_base_dir, runner,
                   env_arg, heap, envCalls, runnerCalls, agentCalls, io, error, raised>>

\* "Tensorboard": %tensorboard --logdir=/tmp/recsim/
TensorboardLogdir == PyStr("/tmp/recsim/")

TensorboardCell ==
    /\ pc = "tensorboard"
    /\ pc' = "done"
    /\ io' = io \cup {[op |-> "read", by |-> "tensorboard", dir |-> TensorboardLogdir]}
    /\ UNCHANGED <<imported, create_agent_fn, seed, env_config, tmp_base_dir, runner,
                   env_arg, heap, envCalls, runnerCalls, agentCalls, events, error, raised,
                   loopvars>>

----------------------------------------------------------------------------
(* The notebook run from a fresh kernel. *)

LoopInit ==
    /\ lpc = "idle"
    /\ number_of_episodes = 0
    /\ episode = 0
    /\ step = 0
    /\ started = <<>>
    /\ session_over = FALSE
    /\ user = Unset
    /\ recommended_slate = Unset
    /\ user_response = Unset
    /\ available_documents = Unset

Init ==
    /\ pc = "install"
    /\ imported = {}
    /\ create_agent_fn = Unset
    /\ seed = Unset
    /\ env_config = Unset
    /\ tmp_base_dir = Unset
    /\ runner = Unset
    /\ env_arg = Unset
    /\ heap = EmptyHeap
    /\ envCalls = <<>>
    /\ runnerCalls = <<>>
    /\ runnerCalls = <<>>
    /\ agentCalls = <<>>
    /\ events = <<>>
    /\ io = {}
    /\ error = Unset
    /\ raised = Unset
    /\ LoopInit

TrainEnv == CallCreateEnvironment("train")
TrainRunner == ConstructRunner("train")
\* the training cell as it would be without its runner.run_experiment() line
TrainRunSkipped ==
    /\ pc = "train_run"
    /\ pc' = "eval_env"
    /\ UNCHANGED <<imported, create_agent_fn, seed, env_config, tmp_base_dir, runner,
                   env_arg, heap, logvars, loopvars>>

TrainRun == RunExperimentCall("train")
TrainReturn == RunExperimentReturn("train")
EvalEnv == CallCreateEnvironment("eval")
EvalRunner == ConstructRunner("eval")
EvalRun == RunExperimentCall("eval")
EvalReturn == RunExperimentReturn("eval")

Next ==
    \/ InstallCell
    \/ ImportGenericsCell
    \/ ImportRecSimCell
    \/ DefCreateAgentCell
    \/ ConfigCell
    \/ TrainBaseDir
    \/ TrainEnv
    \/ TrainRunner
    \/ TrainRun
    \/ TrainReturn
    \/ EvalEnv
    \/ EvalRunner
    \/ EvalRun
    \/ EvalReturn
    \/ ForEpisode
    \/ SampleUser
    \/ SetSlateNull
    \/ WhileSessionNotOver
    \/ UserResponds
    \/ SampleDocuments
    \/ AgentStep
    \/ RunExperimentRaises
    \/ TensorboardCell

Spec == Init /\ [][Next]_vars

\* the kernel keeps executing while a statement is left to execute
FairSpec == Spec /\ WF_vars(Next)

----------------------------------------------------------------------------
(* create_agent on its own: a caller that holds two environments, two        *)
(* sessions and a summary writer calls it with any arguments, in any order.  *)

HarnessEnvs == {Ref(EnvNames[1]), Ref(EnvNames[2])}
HarnessSessions == {SessionOf("train"), SessionOf("eval")}
HarnessWriters == {Omitted, WriterOf("train")}
\* the constructor returns; a constructor that raises is the notebook's case
HarnessOutcomes == {Ok}

HarnessHeap ==
    [r \in HarnessEnvs \cup HarnessSessions \cup {WriterOf("train")} |->
        IF r \in HarnessEnvs
        THEN create_environment(EnvConfigLiteral(PyInt(SeedValue)), r)
        ELSE IF r \in HarnessSessions THEN Session
        ELSE SummaryWriter]

InitAgent ==
    /\ pc = "harness"
    /\ imported = {"tensorboard", "numpy", "tensorflow", "interest_evolution",
                   "full_slate_q_agent", "runner_lib"}
    /\ create_agent_fn = [kind |-> "function", name |-> "create_agent"]
    /\ seed = PyInt(SeedValue)
    /\ env_config = EnvConfigLiteral(PyInt(SeedValue))
    /\ tmp_base_dir = Unset
    /\ runner = Unset
    /\ env_arg = Unset
    /\ heap = HarnessHeap
    /\ envCalls = <<>>
    /\ runnerCalls = <<>>
    /\ runnerCalls = <<>>
    /\ agentCalls = <<>>
    /\ events = <<>>
    /\ io = {}
    /\ error = Unset
    /\ raised = Unset
    /\ LoopInit

\* one call create_agent(sess, environment, eval_mode[, summary_writer])
HarnessCall ==
    /\ pc = "harness"
    /\ Len(agentCalls) < MaxCalls
    /\ \E sess \in HarnessSessions, environment \in HarnessEnvs,
          eval_mode \in BOOLEAN, sw \in HarnessWriters, o \in HarnessOutcomes :
         LET c == AgentCallEntry(sess, environment, eval_mode, sw, World, o)
         IN  /\ agentCalls' = Append(agentCalls, c)
             /\ heap' = c.after.heap
             /\ env_config' = c.after.env_config
    /\ UNCHANGED <<pc, imported, create_agent_fn, seed, tmp_base_dir, runner, env_arg,
                   envCalls, runnerCalls, events, io, error, raised, loopvars>>

NextAgent == HarnessCall

SpecAgent == InitAgent /\ [][NextAgent]_vars

----------------------------------------------------------------------------
(* Properties of create_agent, under SpecAgent.                              *)

KwargNames == {"observation_space", "action_space", "summary_writer", "eval_mode"}

\* entry c of agentCalls made exactly the constructor call the source writes
PassesThrough(c) ==
    /\ Len(c.calls) = 1
    /\ c.calls[1].callee = "FullSlateQAgent"
    /\ c.calls[1].args = <<c.args.sess>>
    /\ DOMAIN c.calls[1].kwargs = KwargNames
    /\ c.calls[1].kwargs.observation_space
         = c.before.heap[c.args.environment].observation_space
    /\ c.calls[1].kwargs.action_space
         = c.before.heap[c.args.environment].action_space
    /\ c.calls[1].kwargs.eval_mode = c.args.eval_mode
    /\ c.calls[1].kwargs.summary_writer
         = (IF c.args.summary_writer = Omitted THEN None ELSE c.args.summary_writer)
    /\ c.constructor.ok =>
         /\ c.result.ok
         /\ c.result.value = [kind |-> "FullSlateQAgent", args |-> c.calls[1].args,
                              kwargs |-> c.calls[1].kwargs]

\* C1: every call of create_agent invokes FullSlateQAgent exactly once, with sess
\* as the positional argument and the four keywords observation_space and
\* action_space of the environment, summary_writer and eval_mode as given (None
\* for an omitted summary_writer), and returns the agent the constructor built.
C1_PassThrough ==
    \A i \in 1..Len(agentCalls) : PassesThrough(agentCalls[i])

\* a call without summary_writer and a call with one have both returned an agent
C1_Witness ==
    /\ \E i \in 1..Len(agentCalls) :
         /\ agentCalls[i].args.summary_writer = Omitted
         /\ agentCalls[i].result.ok
         /\ agentCalls[i].calls[1].kwargs.summary_writer = None
    /\ \E i \in 1..Len(agentCalls) :
         /\ agentCalls[i].args.summary_writer = WriterOf("train")
         /\ agentCalls[i].args.eval_mode
         /\ agentCalls[i].result.ok

\* the constructor calls of an entry with the eval_mode keyword blanked
SansEvalMode(calls) ==
    [n \in DOMAIN calls |-> [calls[n] EXCEPT !.kwargs.eval_mode = FALSE]]

\* C8: create_agent keeps no state and changes none: every call leaves the heap
\* (environments with their spaces, sessions, writers) and env_config as they
\* were, calls with equal arguments make equal constructor calls whatever was
\* called in between, and eval_mode changes the eval_mode keyword only.
C8_Pure ==
    /\ \A i \in 1..Len(agentCalls) :
         /\ agentCalls[i].after = agentCalls[i].before
         /\ agentCalls[i].after = World
         /\ heap = HarnessHeap
         /\ env_config = EnvConfigLiteral(PyInt(SeedValue))
    /\ \A i, j \in 1..Len(agentCalls) :
         /\ agentCalls[i].args = agentCalls[j].args
              => agentCalls[i].calls = agentCalls[j].calls
         /\ [agentCalls[i].args EXCEPT !.eval_mode = FALSE]
              = [agentCalls[j].args EXCEPT !.eval_mode = FALSE]
              => SansEvalMode(agentCalls[i].calls) = SansEvalMode(agentCalls[j].calls)

\* two calls with the same arguments had a call in the other mode and with another
\* summary_writer between them
C8_Witness ==
    /\ Len(agentCalls) >= 3
    /\ agentCalls[1].args = agentCalls[3].args
    /\ agentCalls[2].args.eval_mode # agentCalls[1].args.eval_mode
    /\ agentCalls[2].args.summary_writer # agentCalls[1].args.summary_writer
    /\ agentCalls[1].calls[1].kwargs.eval_mode # agentCalls[2].calls[1].kwargs.eval_mode

----------------------------------------------------------------------------
(* Properties of the notebook, under Spec.                                   *)

\* the position of event e in events, 0 when it has not happened
Pos(e) ==
    IF \E i \in 1..Len(events) : events[i] = e
    THEN CHOOSE i \in 1..Len(events) : events[i] = e
    ELSE 0

Happened(e) == Pos(e) > 0

\* b has happened only if a happened earlier
Precedes(a, b) == Happened(b) => (Happened(a) /\ Pos(a) < Pos(b))

Phases == {"train", "eval"}

\* the mapping the notebook writes
TheConfig ==
    [num_candidates |-> 10, slate_size |-> 2, resample_documents |-> TRUE, seed |-> 0]

\* C2: every call of create_environment, for the training runner and for the
\* evaluation runner, receives env_config with its four entries as defined, and
\* the notebook never changes env_config once it is defined.
C2_ConfigVerbatim ==
    /\ env_config \in {Unset, TheConfig}
    /\ Len(envCalls) > 0 => env_config = TheConfig
    /\ \A i \in 1..Len(envCalls) :
         /\ envCalls[i].config = TheConfig
         /\ DOMAIN envCalls[i].config
              = {"num_candidates", "slate_size", "resample_documents", "seed"}

\* the factory has been called for both runners and the notebook has finished
C2_Witness ==
    /\ pc = "done"
    /\ Len(envCalls) = 2
    /\ envCalls[1].phase = "train"
    /\ envCalls[2].phase = "eval"

\* C3: env_config is defined before the environment factory is called, the
\* factory returns before the runner is constructed, the runner is constructed
\* before its run_experiment() is called, and nothing of the evaluation phase
\* happens before the training run_experiment() has returned.
C3_Ordered ==
    /\ \A k \in Phases :
         /\ Precedes(Ev("setup", "env_config", "defined"),
                     Ev(k, "create_environment", "call"))
         /\ Precedes(Ev(k, "create_environment", "return"), Ev(k, "Runner", "call"))
         /\ Precedes(Ev(k, "Runner", "return"), Ev(k, "run_experiment", "call"))
    /\ \A i \in 1..Len(events) :
         events[i].phase = "eval" =>
           \E j \in 1..(i - 1) : events[j] = Ev("train", "run_experiment", "return")
    /\ pc \in {"eval_env", "eval_ctor", "eval_run", "eval_loop", "tensorboard", "done"}
         => Happened(Ev("train", "run_experiment", "return"))
    /\ pc = "train_loop" => \A i \in 1..Len(events) : events[i].phase # "eval"
    /\ \A i, j \in 1..Len(events) : events[i] = events[j] => i = j

\* the evaluation loop is running, after the training run returned
C3_Witness ==
    /\ pc = "eval_loop"
    /\ lpc = "agent_step"
    /\ Happened(Ev("train", "run_experiment", "return"))
    /\ Happened(Ev("eval", "run_experiment", "call"))

\* C6: both runners are constructed with base_dir '/tmp/recsim/', the dashboard
\* reads that directory, and whatever the evaluation run or the dashboard reads
\* lies in the directory the training run wrote to; no other directory is used.
C6_OneBaseDir ==
    /\ \A i \in 1..Len(runnerCalls) :
         runnerCalls[i].base_dir = PyStr("/tmp/recsim/")
    /\ \A i, j \in 1..Len(runnerCalls) :
         runnerCalls[i].base_dir = runnerCalls[j].base_dir
    /\ \A r \in io :
         /\ r.dir = PyStr("/tmp/recsim/")
         /\ r.op = "read" =>
              \E w \in io : w.op = "write" /\ w.by = "train" /\ w.dir = r.dir

\* both runs and the dashboard have used the directory
C6_Witness ==
    /\ pc = "done"
    /\ Len(runnerCalls) = 2
    /\ [op |-> "read", by |-> "eval", dir |-> PyStr("/tmp/recsim/")] \in io
    /\ [op |-> "read", by |-> "tensorboard", dir |-> PyStr("/tmp/recsim/")] \in io

\* some call of phase k raised
Raised(k, op) == Happened(Ev(k, op, "raise"))

\* C7: a failure of an external call reaches the notebook's top level as it was
\* raised: create_agent neither catches, replaces nor retries a constructor
\* error and returns no agent; no runner is constructed from a failed factory
\* call, run_experiment() is not called on a runner that failed to construct,
\* and nothing runs after the failure.
C7_Propagates ==
    /\ raised # Unset => (pc = "failed" /\ error = raised)
    /\ pc = "failed" => (raised # Unset /\ error = raised)
    /\ \A i \in 1..Len(agentCalls) :
         ~agentCalls[i].constructor.ok =>
           /\ agentCalls[i].result = agentCalls[i].constructor
           /\ Len(agentCalls[i].calls) = 1
    /\ \A i \in 1..Len(events) :
         events[i].ev = "raise" => (i = Len(events) /\ pc = "failed")
    /\ \A k \in Phases :
         /\ Raised(k, "create_environment") =>
              /\ ~Happened(Ev(k, "Runner", "call"))
              /\ Len(runnerCalls) = (IF k = "train" THEN 0 ELSE 1)
         /\ Raised(k, "Runner") =>
              /\ ~Happened(Ev(k, "run_experiment", "call"))
              /\ IF k = "train" THEN runner = Unset
                 ELSE runner.args.kind = "TrainRunner"
         /\ Raised(k, "run_experiment") =>
              ~Happened(Ev(k, "run_experiment", "return"))
    /\ Raised("train", "create_environment") \/ Raised("train", "Runner")
         \/ Raised("train", "run_experiment")
         => \A i \in 1..Len(events) : events[i].phase # "eval"

\* the agent constructor raised inside create_agent while EvalRunner was being
\* constructed, and the error is at the top level
C7_Witness ==
    /\ pc = "failed"
    /\ error = [site |-> "FullSlateQAgent", error |-> "RuntimeError"]
    /\ Len(agentCalls) = 2
    /\ ~agentCalls[2].constructor.ok
    /\ runner.args.kind = "TrainRunner"

\* C9: the factory is called once per runner, the training runner gets the
\* result of the first call and the evaluation runner that of the second, a new
\* environment that the training run never touched, and create_agent gives each
\* runner's agent the spaces of that runner's own environment.
C9_SeparateEnvs ==
    /\ Len(envCalls) <= 2
    /\ Len(runnerCalls) <= Len(envCalls)
    /\ pc = "done" => (Len(envCalls) = 2 /\ Len(runnerCalls) = 2)
    /\ \A i \in 1..Len(runnerCalls) :
         /\ runnerCalls[i].kind = (IF i = 1 THEN "TrainRunner" ELSE "EvalRunner")
         /\ runnerCalls[i].env = envCalls[i].result
         /\ \A j \in 1..Len(runnerCalls) :
              i # j => runnerCalls[i].env # runnerCalls[j].env
    /\ pc \in {"train_ctor", "train_run", "train_loop"} =>
         \A r \in DOMAIN heap : heap[r].kind = "Environment" => r = envCalls[1].result
    /\ pc \in {"eval_ctor", "eval_run"} =>
         /\ heap[envCalls[2].result].state = "fresh"
         /\ heap[envCalls[1].result].state = "used"
    /\ \A i \in 1..Len(agentCalls) :
         LET kw == agentCalls[i].calls[1].kwargs
             own == runnerCalls[i].env
         IN  /\ agentCalls[i].args.environment = own
             /\ kw.observation_space = heap[own].observation_space
             /\ kw.action_space = heap[own].action_space
             /\ kw.observation_space.of = own
             /\ kw.action_space.of = own

\* the evaluation runner holds its own new environment and an agent built on it,
\* while the training environment has been used
C9_Witness ==
    /\ pc = "eval_run"
    /\ runner.args.kind = "EvalRunner"
    /\ runner.args.env = envCalls[2].result
    /\ runner.agent.kwargs.action_space.of = envCalls[2].result
    /\ heap[envCalls[1].result].state = "used"
    /\ heap[envCalls[2].result].state = "fresh"

----------------------------------------------------------------------------
(* Properties of the event loop.                                             *)

\* value v was produced in iteration st of the session of episode ep
TaggedAt(v, kind, ep, st) == v.kind = kind /\ v.episode = ep /\ v.step = st

\* C4: every episode samples its user and sets the slate to null before its
\* session; every iteration has the user respond to the current slate, then
\* samples the documents, then gives the agent step that iteration's documents
\* and response; so the first response of an episode answers the null slate,
\* every later one the slate of the iteration before in the same episode, and
\* nothing of an earlier episode is answered or consumed.
C4_StepOrder ==
    InLoop =>
      /\ lpc \in {"set_null", "while", "user_responds", "sample_documents",
                  "agent_step"}
           => (user.kind = "user" /\ user.episode = episode)
      /\ (lpc = "while" /\ step = 0) => recommended_slate = Null
      /\ lpc = "user_responds" =>
           IF step = 1 THEN recommended_slate = Null
           ELSE TaggedAt(recommended_slate, "slate", episode, step - 1)
      /\ lpc = "sample_documents" =>
           TaggedAt(user_response, "response", episode, step)
      /\ lpc = "agent_step" =>
           /\ TaggedAt(user_response, "response", episode, step)
           /\ TaggedAt(available_documents, "documents", episode, step)
      /\ (lpc = "while" /\ step > 0) =>
           TaggedAt(recommended_slate, "slate", episode, step)
      /\ user_response.kind = "response" =>
           IF user_response.step = 1 THEN user_response.to = Null
           ELSE TaggedAt(user_response.to, "slate", user_response.episode,
                         user_response.step - 1)
      /\ recommended_slate.kind = "slate" =>
           /\ TaggedAt(recommended_slate.from_docs, "documents",
                       recommended_slate.episode, recommended_slate.step)
           /\ TaggedAt(recommended_slate.from_response, "response",
                       recommended_slate.episode, recommended_slate.step)

\* in the second iteration of the second episode the agent step is about to
\* consume a response to the slate of the first iteration
C4_Witness ==
    /\ pc = "eval_loop"
    /\ lpc = "agent_step"
    /\ episode = 2
    /\ step = 2
    /\ TaggedAt(user_response.to, "slate", 2, 1)
    /\ TaggedAt(recommended_slate, "slate", 2, 1)

\* the episodes started so far are 1, 2, ..., episode, none beyond the last
EpisodesInOrder ==
    InLoop =>
      /\ episode <= number_of_episodes
      /\ started = [i \in 1..episode |-> i]
      /\ lpc = "end" => (episode = number_of_episodes
                         /\ Len(started) = number_of_episodes)

\* an episode starts one at a time and only once the session before it is over
StartsAfterOver ==
    Len(started') > Len(started) =>
      /\ Len(started') = Len(started) + 1
      /\ Len(started) > 0 => session_over

\* C5: a run of number_of_episodes = N starts exactly the episodes 1..N in
\* order, each after the session of the one before is over, and, every session
\* being over after finitely many iterations, the loop ends after the N-th
\* episode without starting another.
C5_FixedEpisodes ==
    /\ []EpisodesInOrder
    /\ [][StartsAfterOver]_vars
    /\ (InLoop ~> (lpc = "end" \/ pc = "failed"))

\* the evaluation loop has ended after its five episodes
C5_Witness ==
    /\ pc = "eval_loop"
    /\ lpc = "end"
    /\ number_of_episodes = MaxEvalEpisodes
    /\ started = <<1, 2, 3, 4, 5>>
    /\ session_over

====
